---- MODULE Spec2Model ----
(***************************************************************************)
(* Model of fpl_auto_bot.py: the squad selector (pick_squad), the lineup   *)
(* selector (pick_xi) and the weekly routine (weekly_routine) that plans   *)
(* free transfers and posts the decision to the remote service.            *)
(*                                                                         *)
(* A scored player table (els_scored) is a sequence of rows; the row at    *)
(* index i is the player with id i.  Scores are integers: the code only    *)
(* compares and sorts them.  sort_values uses an unstable sort, so the     *)
(* order of rows with equal scores is a nondeterministic choice.           *)
(***************************************************************************)
EXTENDS Integers, Sequences, FiniteSets, TLC

VARIABLES
    pc,             \* position of the running function
    ret,            \* where pick_squad returns to
    els,            \* els_scored: the scored player table
    budget,         \* pick_squad: budget_tenths
    pos,            \* pick_squad: the position of the next pass (5: loop over)
    selected,       \* pick_squad: selected
    club_ct,        \* pick_squad: club_ct
    remaining,      \* pick_squad: remaining
    need,           \* pick_squad: need left when the last pass ended
    squad_ids,      \* pick_xi: squad_ids
    xi,             \* pick_xi: xi
    captain,        \* pick_xi: captain (0: none)
    vice,           \* pick_xi: vice (0: none)
    next_ev,        \* weekly_routine: next_ev, [gw, hrs] or NoEvent
    my,             \* weekly_routine: my, the my-team response
    desired,        \* weekly_routine: desired
    free_left,      \* weekly_routine: free_left
    outs,           \* weekly_routine: outs
    ins,            \* weekly_routine: ins
    transfers,      \* weekly_routine: transfers, a sequence of <<out, in>>
    posts           \* the posts made to the remote service, in order

vars == <<pc, ret, els, budget, pos, selected, club_ct, remaining, need,
          squad_ids, xi, captain, vice, next_ev, my, desired, free_left,
          outs, ins, transfers, posts>>

----------------------------------------------------------------------------
(* Program constants *)

MAX_PER_CLUB == 3
BUDGET_TENTHS == 1000
SQUAD_SHAPE == <<2, 5, 5, 3>>
XI_MINIMA == <<1, 3, 2, 1>>
XI_SIZE == 11
SQUAD_SIZE == 15
WINDOW_HOURS == 24

----------------------------------------------------------------------------
(* Bounds of the model *)

\* players in the table beyond the 15 of a squad
Spare == 3
\* the largest number of transfers already made this gameweek
MaxMade == 2

NPlayers == SQUAD_SIZE + Spare
Ids == 1..NPlayers

----------------------------------------------------------------------------
(* The player tables the model draws from.  A table is fixed by four       *)
(* seeds: the layout of positions, the scores, the clubs and the costs.    *)

\* position layouts, repeated cyclically over the ids
Layouts == <<
    <<4, 2, 3, 1, 2, 3>>,
    <<1, 2, 3, 4, 1, 2, 3, 4, 1, 2, 3, 4, 1, 2, 3, 4, 1, 4>> >>

PosOf(lay, i) == Layouts[lay][((i - 1) % Len(Layouts[lay])) + 1]

\* scores: rising with the id, falling with the id, scattered without
\* ties, and scattered with each id above 16 tied with the id twelve below
\* it (a player of the same position in the first layout)
ScoreOf(sc, i) ==
    CASE sc = 1 -> i
      [] sc = 2 -> 100 - i
      [] sc = 3 -> (i * 7) % 23
      [] OTHER  -> IF i > 16 THEN ((i - 12) * 5) % 23 ELSE (i * 5) % 23

\* clubs: one club per player, five clubs, blocks of six players per club,
\* and one club of four (ids 2..5) among one-player clubs
TeamOf(tm, i) ==
    CASE tm = 1 -> i
      [] tm = 2 -> (i % 5) + 1
      [] tm = 3 -> ((i - 1) \div 6) + 1
      [] OTHER  -> IF i \in 2..5 THEN 0 ELSE i

\* costs in tenths: cheap, dear (a full squad exceeds the budget),
\* every player above the whole budget, at most one player affordable,
\* and cheap but for one player (id 12) at 650
CostOf(cs, i) ==
    CASE cs = 1 -> 45 + (i % 4) * 5
      [] cs = 2 -> 55 + ((i * 3) % 7) * 10
      [] cs = 3 -> 1001 + i
      [] cs = 4 -> 500 + 10 * i
      [] OTHER  -> IF i = 12 THEN 650 ELSE 45 + (i % 4) * 5

Table(lay, sc, tm, cs) ==
    [i \in Ids |-> [element_type |-> PosOf(lay, i),
                    team         |-> TeamOf(tm, i),
                    now_cost_i   |-> CostOf(cs, i),
                    score        |-> ScoreOf(sc, i)]]

NoTable == <<>>

----------------------------------------------------------------------------
(* Helpers over tables and id sequences *)

Range(s) == {s[k] : k \in DOMAIN s}

RECURSIVE SumCost(_, _)
SumCost(tab, S) ==
    IF S = {} THEN 0
    ELSE LET x == CHOOSE y \in S : TRUE
         IN  tab[x].now_cost_i + SumCost(tab, S \ {x})

CountPos(tab, S, p) == Cardinality({i \in S : tab[i].element_type = p})
CountTeam(tab, S, t) == Cardinality({i \in S : tab[i].team = t})
TeamsOf(tab) == {tab[i].team : i \in DOMAIN tab}
Distinct(s) == Cardinality(Range(s)) = Len(s)

\* sort_values('score', ascending=False): every order of the ids of S by
\* descending score; rows of equal score come in any order
RECURSIVE SortedOrders(_, _)
SortedOrders(tab, S) ==
    IF S = {} THEN {<<>>}
    ELSE LET top == {x \in S : \A y \in S : tab[y].score <= tab[x].score}
         IN  UNION {{<<x>> \o t : t \in SortedOrders(tab, S \ {x})} : x \in top}

----------------------------------------------------------------------------
(* pick_squad *)

\* the mutant of ClubFull: the cap test is off by one
ClubFullEarly(ct, team) == ct[team] >= MAX_PER_CLUB - 1

\* club_ct[team] >= MAX_PER_CLUB
ClubFull(ct, team) == ct[team] >= MAX_PER_CLUB

\* the mutant of Affordable: the cost is never tested
AffordableAlways(cost, rem) == TRUE

\* cost <= remaining
Affordable(cost, rem) == cost <= rem

\* els_scored[els_scored['element_type']==pos]
Pool(tab, p) == {i \in DOMAIN tab : tab[i].element_type = p}

\* the inner loop of pick_squad over the sorted pool of one position
RECURSIVE PickPass(_, _, _)
PickPass(tab, order, st) ==
    IF order = <<>> \/ st.need = 0 THEN st
    ELSE LET pid  == Head(order)
             cost == tab[pid].now_cost_i
             team == tab[pid].team
         IN  IF ClubFull(st.club_ct, team)
             THEN PickPass(tab, Tail(order), st)
             ELSE IF Affordable(cost, st.remaining)
             THEN PickPass(tab, Tail(order),
                           [selected  |-> Append(st.selected, pid),
                            club_ct   |-> [st.club_ct EXCEPT ![team] = @ + 1],
                            remaining |-> st.remaining - cost,
                            need      |-> st.need - 1])
             ELSE PickPass(tab, Tail(order), st)

\* the entry of pick_squad: selected, club_ct and remaining are set up
EnterPickSquad(tab, b, back) ==
    /\ pc' = "pick_squad"
    /\ ret' = back
    /\ budget' = b
    /\ pos' = 1
    /\ selected' = <<>>
    /\ club_ct' = [t \in TeamsOf(tab) |-> 0]
    /\ remaining' = b
    /\ need' = 0

\* one pass of the outer loop of pick_squad, for position pos; after the
\* pass for position 4 the function returns selected
PickSquadPass ==
    /\ pc = "pick_squad"
    /\ pos \in 1..4
    /\ \E order \in SortedOrders(els, Pool(els, pos)) :
         LET st == PickPass(els, order,
                            [selected  |-> selected,
                             club_ct   |-> club_ct,
                             remaining |-> remaining,
                             need      |-> SQUAD_SHAPE[pos]])
         IN  /\ selected' = st.selected
             /\ club_ct' = st.club_ct
             /\ remaining' = st.remaining
             /\ need' = st.need
    /\ pos' = pos + 1
    /\ pc' = IF pos = 4 THEN ret ELSE pc
    /\ UNCHANGED <<ret, els, budget, squad_ids, xi, captain, vice, next_ev, my,
                   desired, free_left, outs, ins, transfers, posts>>

----------------------------------------------------------------------------
(* pick_xi *)

\* the mutant of XiTaken: a player already in the lineup is not skipped
XiTakenNever(pid, taken) == FALSE

\* pid in taken
XiTaken(pid, taken) == pid \in taken

\* the mutant of XiCapped: the goalkeeper cap is not tested
XiCappedNoKeeper(p, ct) == p = 4 /\ ct[p] >= 3

\* p == 1 and pos_ct[p] >= 1, or p == 4 and pos_ct[p] >= 3
XiCapped(p, ct) == (p = 1 /\ ct[p] >= 1) \/ (p = 4 /\ ct[p] >= 3)

\* squad[squad['element_type']==pos].head(mn), squad in the order o
MinimaPool(tab, o, p) ==
    LET OfPos(i) == tab[i].element_type = p
        rows == SelectSeq(o, OfPos)
    IN  SubSeq(rows, 1, IF Len(rows) < XI_MINIMA[p] THEN Len(rows) ELSE XI_MINIMA[p])

\* the loop that satisfies the minima: xi and pos_ct after it
XiMinima(tab, o) ==
    [xi     |-> MinimaPool(tab, o, 1) \o MinimaPool(tab, o, 2)
                \o MinimaPool(tab, o, 3) \o MinimaPool(tab, o, 4),
     pos_ct |-> [p \in 1..4 |-> Len(MinimaPool(tab, o, p))]]

\* the loop that fills the lineup up to 11, from row k of the squad on
RECURSIVE XiFill(_, _, _, _, _)
XiFill(tab, o, k, taken, st) ==
    IF k > Len(o) \/ st.rem = 0 THEN st
    ELSE LET pid == o[k]
             p   == tab[pid].element_type
         IN  IF XiTaken(pid, taken) \/ XiCapped(p, st.pos_ct)
             THEN XiFill(tab, o, k + 1, taken, st)
             ELSE XiFill(tab, o, k + 1, taken,
                         [xi     |-> Append(st.xi, pid),
                          pos_ct |-> [st.pos_ct EXCEPT ![p] = @ + 1],
                          rem    |-> st.rem - 1])

\* xi at the end of both loops, the squad rows being in the order o
XiOf(tab, o) ==
    LET m == XiMinima(tab, o)
    IN  XiFill(tab, o, 1, Range(m.xi),
               [xi |-> m.xi, pos_ct |-> m.pos_ct, rem |-> XI_SIZE - Len(m.xi)]).xi

\* what pick_xi does once xi is built: xi_df is the lineup's rows in the
\* order o2; iloc[0] and iloc[1] raise IndexError on a missing row
XiReturn(lineup, o2) ==
    IF Len(o2) < 2
    THEN [raised |-> TRUE, xi |-> lineup, captain |-> 0, vice |-> 0]
    ELSE [raised |-> FALSE, xi |-> lineup, captain |-> o2[1], vice |-> o2[2]]

\* every outcome of pick_xi(els_scored, squad_ids): one for each order the
\* two sorts can leave rows of equal score in
PickXI(tab, ids) ==
    LET S == {i \in DOMAIN tab : i \in Range(ids)}
    IN  UNION {{XiReturn(XiOf(tab, o), o2) :
                   o2 \in SortedOrders(tab, Range(XiOf(tab, o)))} :
               o \in SortedOrders(tab, S)}

\* a call of pick_xi on squad_ids: it returns xi, captain and vice, or raises
CallPickXI ==
    /\ pc = "pick_xi"
    /\ \E r \in PickXI(els, squad_ids) :
         IF r.raised
         THEN /\ pc' = "raised"
              /\ UNCHANGED <<xi, captain, vice>>
         ELSE /\ pc' = "returned"
              /\ xi' = r.xi
              /\ captain' = r.captain
              /\ vice' = r.vice
    /\ UNCHANGED <<ret, els, budget, pos, selected, club_ct, remaining, need,
                   squad_ids, next_ev, my, desired, free_left, outs, ins,
                   transfers, posts>>

----------------------------------------------------------------------------
(* Specification of pick_squad alone: every table, several budgets *)

NoEvent == [gw |-> 0, hrs |-> 0]
NoTeam == [picks |-> <<>>, limit |-> 0, made |-> 0]

Budgets == {0, 100, 545, 700, BUDGET_TENTHS}

SquadTables ==
    {Table(lay, sc, tm, cs) : lay \in 1..2, sc \in 1..4, tm \in 1..4, cs \in 1..5}

InitSquad ==
    /\ els \in SquadTables
    /\ budget \in Budgets
    /\ pc = "pick_squad"
    /\ ret = "returned"
    /\ pos = 1
    /\ selected = <<>>
    /\ club_ct = [t \in TeamsOf(els) |-> 0]
    /\ remaining = budget
    /\ need = 0
    /\ squad_ids = <<>>
    /\ xi = <<>>
    /\ captain = 0
    /\ vice = 0
    /\ next_ev = NoEvent
    /\ my = NoTeam
    /\ desired = <<>>
    /\ free_left = 0
    /\ outs = <<>>
    /\ ins = <<>>
    /\ transfers = <<>>
    /\ posts = <<>>

NextSquad == PickSquadPass

SpecSquad == InitSquad /\ [][NextSquad]_vars

----------------------------------------------------------------------------
(* Claims about pick_squad *)

Unselected(p) == Pool(els, p) \ Range(selected)

\* C1: the roster pick_squad returns costs at most the budget, has at most
\* MAX_PER_CLUB members of any club over all positions, has no more members
\* of a position than SQUAD_SHAPE requires, and holds no id twice.
C1_SquadWithinLimits ==
    pos = 5 =>
        /\ SumCost(els, Range(selected)) <= budget
        /\ \A t \in TeamsOf(els) : CountTeam(els, Range(selected), t) <= 3
        /\ \A p \in 1..4 : CountPos(els, Range(selected), p) <= SQUAD_SHAPE[p]
        /\ Distinct(selected)

\* C1 witness: a returned roster of at least 14 for which both limits
\* mattered: an affordable player was left out although he outscores a
\* selected player of his position, because his club already has three
\* members, and another such player of a club below the cap was left out
\* because he costs more than what is left of the budget.
C1_Witness ==
    /\ pos = 5
    /\ Len(selected) >= 14
    /\ \E p \in 1..4 : \E i \in Unselected(p) :
         /\ CountTeam(els, Range(selected), els[i].team) = 3
         /\ els[i].now_cost_i <= remaining
         /\ \E j \in Range(selected) :
              els[j].element_type = p /\ els[j].score < els[i].score
    /\ \E p \in 1..4 : \E i \in Unselected(p) :
         /\ CountTeam(els, Range(selected), els[i].team) < 3
         /\ els[i].now_cost_i > remaining
         /\ \E j \in Range(selected) :
              els[j].element_type = p /\ els[j].score < els[i].score

\* C10: positions are taken in the order 1,2,3,4 and, within a position,
\* players in descending score; and when the pass of a position ends short
\* of its required count, every player of that position left out belongs to
\* a club at the cap or costs more than the budget left at the end of the
\* pass.
C10_GreedyMaximal ==
    /\ \A a, b \in 1..Len(selected) :
         a < b =>
           /\ els[selected[a]].element_type <= els[selected[b]].element_type
           /\ els[selected[a]].element_type = els[selected[b]].element_type
                => els[selected[a]].score >= els[selected[b]].score
    /\ (pos \in 2..5 /\ need > 0) =>
         \A i \in Unselected(pos - 1) :
            \/ club_ct[els[i].team] >= 3
            \/ els[i].now_cost_i > remaining

\* C10 witness: a pass has just ended short of its required count after
\* selecting somebody, leaving out one player for his club and another for
\* his cost.
C10_Witness ==
    /\ pos \in 2..5
    /\ need > 0
    /\ need < SQUAD_SHAPE[pos - 1]
    /\ \E i \in Unselected(pos - 1) :
         club_ct[els[i].team] >= 3 /\ els[i].now_cost_i <= remaining
    /\ \E i \in Unselected(pos - 1) :
         club_ct[els[i].team] < 3 /\ els[i].now_cost_i > remaining

----------------------------------------------------------------------------
(* Specification of pick_xi alone: every squad of 15 of the table *)

RECURSIVE AscendingSeq(_)
AscendingSeq(S) ==
    IF S = {} THEN <<>>
    ELSE LET x == CHOOSE y \in S : \A z \in S : y <= z
         IN  <<x>> \o AscendingSeq(S \ {x})

XiTables == {Table(lay, sc, 1, 1) : lay \in 1..2, sc \in 1..4}

XiSquads == {AscendingSeq(Ids \ R) : R \in {Q \in SUBSET Ids : Cardinality(Q) = Spare}}

InitXi ==
    /\ els \in XiTables
    /\ squad_ids \in XiSquads
    /\ pc = "pick_xi"
    /\ ret = "returned"
    /\ budget = 0
    /\ pos = 1
    /\ selected = <<>>
    /\ club_ct = [t \in TeamsOf(els) |-> 0]
    /\ remaining = 0
    /\ need = 0
    /\ xi = <<>>
    /\ captain = 0
    /\ vice = 0
    /\ next_ev = NoEvent
    /\ my = NoTeam
    /\ desired = <<>>
    /\ free_left = 0
    /\ outs = <<>>
    /\ ins = <<>>
    /\ transfers = <<>>
    /\ posts = <<>>

NextXi == CallPickXI

SpecXi == InitXi /\ [][NextXi]_vars

----------------------------------------------------------------------------
(* Claims about pick_xi *)

Squad == Range(squad_ids)
InSquad(p) == CountPos(els, Squad, p)
Score(i) == els[i].score

\* a squad of exactly 15 distinct ids with the lineup minima available
FifteenWithMinima ==
    /\ Len(squad_ids) = 15
    /\ Distinct(squad_ids)
    /\ InSquad(1) >= 1 /\ InSquad(2) >= 3 /\ InSquad(3) >= 2 /\ InSquad(4) >= 1

\* exactly 11 distinct ids, a captain and a different vice both among them,
\* captain score >= vice score >= the score of every other member
ElevenLedByCaptain ==
    /\ Len(xi) = 11
    /\ Distinct(xi)
    /\ captain \in Range(xi)
    /\ vice \in Range(xi)
    /\ captain # vice
    /\ Score(captain) >= Score(vice)
    /\ \A i \in Range(xi) \ {captain, vice} : Score(vice) >= Score(i)

\* C2 as stated: for every squad of 15 distinct ids with the lineup minima
\* available, whatever its shape, pick_xi returns 11 distinct ids led by a
\* captain and a different vice.
C2_AnyShapeEleven ==
    (pc = "returned" /\ FifteenWithMinima) => ElevenLedByCaptain

\* the members pick_xi can field: one goalkeeper, every member of positions
\* 2 and 3, and at most three of position 4
Fieldable ==
    1 + InSquad(2) + InSquad(3) + (IF InSquad(4) < 3 THEN InSquad(4) ELSE 3)

\* C2 amended: for every squad of 15 distinct ids with the lineup minima
\* available that can field 11 (one goalkeeper, its members of positions 2
\* and 3 and at most three attackers), as every 2/5/5/3 squad can, pick_xi
\* returns 11 distinct ids led by a captain and a different vice.
C2_FieldableEleven ==
    (pc = "returned" /\ FifteenWithMinima /\ Fieldable >= 11)
        => ElevenLedByCaptain

\* C2 witness: a squad of an odd shape (more than three attackers, fewer
\* than five of position 2) that can still field 11, and got its 11 with a
\* goalkeeper left out who outscores the vice.
C2_Witness ==
    /\ pc = "returned"
    /\ FifteenWithMinima
    /\ InSquad(4) > 3
    /\ InSquad(2) < 5
    /\ Fieldable >= 11
    /\ Len(xi) = 11
    /\ \E g \in Squad \ Range(xi) : els[g].element_type = 1 /\ Score(g) > Score(vice)

FullShape == \A p \in 1..4 : InSquad(p) = SQUAD_SHAPE[p]

\* C3: for every squad of the full 2/5/5/3 shape the lineup holds squad
\* members only, exactly one goalkeeper, at least three of position 2, at
\* least two of position 3 and between one and three attackers.
C3_Formation ==
    (pc = "returned" /\ Len(squad_ids) = 15 /\ FullShape) =>
        /\ Range(xi) \subseteq Squad
        /\ CountPos(els, Range(xi), 1) = 1
        /\ CountPos(els, Range(xi), 2) >= 3
        /\ CountPos(els, Range(xi), 3) >= 2
        /\ CountPos(els, Range(xi), 4) \in 1..3

\* C3 witness: a 2/5/5/3 squad whose second goalkeeper was left out of the
\* lineup although he outscores one of its members, and whose lineup holds
\* a member of position 2 or 3 taken only to satisfy a minimum (he scores
\* below a squad member left out).
C3_Witness ==
    /\ pc = "returned"
    /\ Len(squad_ids) = 15
    /\ FullShape
    /\ \E g \in Squad \ Range(xi) : \E i \in Range(xi) :
         els[g].element_type = 1 /\ Score(g) > Score(i)
    /\ \E i \in Range(xi) : \E j \in Squad \ Range(xi) :
         /\ els[i].element_type \in {2, 3}
         /\ els[j].element_type \in {2, 3, 4}
         /\ Score(j) > Score(i)

----------------------------------------------------------------------------
(* weekly_routine.  The remote service answers every request; what it      *)
(* answers (the upcoming event, the owned team, the data the scores are    *)
(* computed from) is drawn when the routine reads it.                      *)

\* the mutant of UnderCap: one transfer more than the free ones is taken
UnderCapOrAt(lst, fl) == Len(lst) <= fl

\* len(outs) < free_left, len(ins) < free_left
UnderCap(lst, fl) == Len(lst) < fl

\* the first loop over target: the ids of target that are owned
DesiredOwned(target, owned) ==
    LET IsOwned(i) == i \in owned
    IN  SelectSeq(target, IsOwned)

\* the second loop over target, from index k on: further ids until 15
RECURSIVE DesiredFill(_, _, _)
DesiredFill(target, k, des) ==
    IF k > Len(target) \/ Len(des) >= SQUAD_SIZE THEN des
    ELSE IF target[k] \notin Range(des)
         THEN DesiredFill(target, k + 1, Append(des, target[k]))
         ELSE DesiredFill(target, k + 1, des)

DesiredOf(target, owned) == DesiredFill(target, 1, DesiredOwned(target, owned))

\* a loop that appends the ids of lst that pass keep while under the cap
RECURSIVE Capped(_, _, _, _, _)
Capped(lst, k, keep, fl, acc) ==
    IF k > Len(lst) THEN acc
    ELSE IF lst[k] \in keep /\ UnderCap(acc, fl)
         THEN Capped(lst, k + 1, keep, fl, Append(acc, lst[k]))
         ELSE Capped(lst, k + 1, keep, fl, acc)

Reverse(s) == [k \in 1..Len(s) |-> s[Len(s) + 1 - k]]

\* the mutant of OutsOf: the roster is walked from its end
OutsOfFromEnd(picks, des, fl) ==
    IF fl > 0 THEN Capped(Reverse(picks), 1, Range(picks) \ Range(des), fl, <<>>)
    ELSE <<>>

\* outs: owned ids not in desired, in roster order, while under the cap
OutsOf(picks, des, fl) ==
    IF fl > 0 THEN Capped(picks, 1, Range(picks) \ Range(des), fl, <<>>)
    ELSE <<>>

\* ins: desired ids not owned, in the order of desired, while under the cap
InsOf(picks, des, fl) ==
    IF fl > 0 THEN Capped(des, 1, Range(des) \ Range(picks), fl, <<>>)
    ELSE <<>>

\* transfers: outs zipped with ins when both have the same non-zero length
TransfersOf(o, i) ==
    IF Len(o) = Len(i) /\ Len(i) > 0
    THEN [k \in 1..Len(o) |-> <<o[k], i[k]>>]
    ELSE <<>>

\* the upcoming events the service may report: the gameweek and the hours
\* to its deadline (25 stands for any time more than 24 hours away, 0 and
\* -1 for a deadline that has passed)
Events == [gw : {1, 2}, hrs : {-1, 0, 1, WINDOW_HOURS, WINDOW_HOURS + 1}]

\* the owned rosters the service may report: none, a single player, and
\* the table without Spare consecutive ids, by rising or by falling id
RosterSets ==
    {Ids \ {((k - 1 + j) % NPlayers) + 1 : j \in 0..(Spare - 1)} : k \in Ids}

Rosters ==
    {<<>>, <<1>>}
    \cup {AscendingSeq(R) : R \in RosterSets}
    \cup {Reverse(AscendingSeq(R)) : R \in RosterSets}

MyTeams == [picks : Rosters, limit : {1, 2}, made : 0..MaxMade]

RoutineTables ==
    {Table(1, sc, tm, cs) : sc \in {3, 4}, tm \in {1, 4}, cs \in {1, 3, 4, 5}}

InGW1Window == next_ev.gw = 1 /\ next_ev.hrs > 0
InGWWindow == 0 < next_ev.hrs /\ next_ev.hrs <= WINDOW_HOURS

Init ==
    /\ pc = "start"
    /\ ret = "none"
    /\ els = NoTable
    /\ budget = 0
    /\ pos = 1
    /\ selected = <<>>
    /\ club_ct = <<>>
    /\ remaining = 0
    /\ need = 0
    /\ squad_ids = <<>>
    /\ xi = <<>>
    /\ captain = 0
    /\ vice = 0
    /\ next_ev = NoEvent
    /\ my = NoTeam
    /\ desired = <<>>
    /\ free_left = 0
    /\ outs = <<>>
    /\ ins = <<>>
    /\ transfers = <<>>
    /\ posts = <<>>

\* lines 292-301: no event is marked is_next; the routine returns
NoUpcomingGW ==
    /\ pc = "start"
    /\ pc' = "done"
    /\ UNCHANGED <<ret, els, budget, pos, selected, club_ct, remaining, need,
                   squad_ids, xi, captain, vice, next_ev, my, desired,
                   free_left, outs, ins, transfers, posts>>

\* lines 292-306: the upcoming event is found
FindNextEvent ==
    /\ pc = "start"
    /\ next_ev' \in Events
    /\ pc' = "login"
    /\ UNCHANGED <<ret, els, budget, pos, selected, club_ct, remaining, need,
                   squad_ids, xi, captain, vice, my, desired, free_left, outs,
                   ins, transfers, posts>>

\* lines 308-314: login and the my-team response
FetchMyTeam ==
    /\ pc = "login"
    /\ my' \in MyTeams
    /\ pc' = "score"
    /\ UNCHANGED <<ret, els, budget, pos, selected, club_ct, remaining, need,
                   squad_ids, xi, captain, vice, next_ev, desired, free_left,
                   outs, ins, transfers, posts>>

\* lines 316-318: the player table is built and scored
ScorePlayers ==
    /\ pc = "score"
    /\ els' \in RoutineTables
    /\ pc' = "decide"
    /\ UNCHANGED <<ret, budget, pos, selected, club_ct, remaining, need,
                   squad_ids, xi, captain, vice, next_ev, my, desired,
                   free_left, outs, ins, transfers, posts>>

\* lines 321-323: gameweek 1 before its deadline; pick_squad is called
GW1Build ==
    /\ pc = "decide"
    /\ InGW1Window
    /\ EnterPickSquad(els, BUDGET_TENTHS, "gw1_xi")
    /\ UNCHANGED <<els, squad_ids, xi, captain, vice, next_ev, my, desired,
                   free_left, outs, ins, transfers, posts>>

\* lines 324-326: pick_xi on the squad pick_squad returned, whatever its size
GW1Lineup ==
    /\ pc = "gw1_xi"
    /\ squad_ids' = selected
    /\ \E r \in PickXI(els, selected) :
         IF r.raised
         THEN /\ pc' = "raised"
              /\ UNCHANGED <<xi, captain, vice>>
         ELSE /\ pc' = "gw1_post"
              /\ xi' = r.xi
              /\ captain' = r.captain
              /\ vice' = r.vice
    /\ UNCHANGED <<ret, els, budget, pos, selected, club_ct, remaining, need,
                   next_ev, my, desired, free_left, outs, ins, transfers, posts>>

\* lines 328-351: the squad is posted as transfers, then the picks
GW1Post ==
    /\ pc = "gw1_post"
    /\ posts' = posts \o <<"post_transfers", "post_picks">>
    /\ pc' = "done"
    /\ UNCHANGED <<ret, els, budget, pos, selected, club_ct, remaining, need,
                   squad_ids, xi, captain, vice, next_ev, my, desired,
                   free_left, outs, ins, transfers>>

\* lines 354-357: within 24 hours of the deadline; pick_squad is called
GWPlan ==
    /\ pc = "decide"
    /\ ~InGW1Window
    /\ InGWWindow
    /\ EnterPickSquad(els, BUDGET_TENTHS, "gw_plan")
    /\ UNCHANGED <<els, squad_ids, xi, captain, vice, next_ev, my, desired,
                   free_left, outs, ins, transfers, posts>>

\* lines 358-390: desired, free_left, outs, ins and transfers
GWTransfers ==
    /\ pc = "gw_plan"
    /\ LET des == DesiredOf(selected, Range(my.picks))
           fl  == my.limit - my.made
           o   == OutsOf(my.picks, des, fl)
           i   == InsOf(my.picks, des, fl)
       IN  /\ desired' = des
           /\ free_left' = fl
           /\ outs' = o
           /\ ins' = i
           /\ transfers' = TransfersOf(o, i)
    /\ pc' = "gw_xi"
    /\ UNCHANGED <<ret, els, budget, pos, selected, club_ct, remaining, need,
                   squad_ids, xi, captain, vice, next_ev, my, posts>>

\* lines 392-393: pick_xi on desired when it has 15 ids, else on the roster
GWLineup ==
    /\ pc = "gw_xi"
    /\ LET xi_source == IF Len(desired) = SQUAD_SIZE THEN desired ELSE my.picks
       IN  /\ squad_ids' = xi_source
           /\ \E r \in PickXI(els, xi_source) :
                IF r.raised
                THEN /\ pc' = "raised"
                     /\ UNCHANGED <<xi, captain, vice>>
                ELSE /\ pc' = "gw_post"
                     /\ xi' = r.xi
                     /\ captain' = r.captain
                     /\ vice' = r.vice
    /\ UNCHANGED <<ret, els, budget, pos, selected, club_ct, remaining, need,
                   next_ev, my, desired, free_left, outs, ins, transfers, posts>>

\* lines 395-418: the transfers are posted when there are any, else the picks
GWPost ==
    /\ pc = "gw_post"
    /\ posts' = Append(posts, IF transfers # <<>> THEN "post_transfers"
                                                  ELSE "post_picks")
    /\ pc' = "done"
    /\ UNCHANGED <<ret, els, budget, pos, selected, club_ct, remaining, need,
                   squad_ids, xi, captain, vice, next_ev, my, desired,
                   free_left, outs, ins, transfers>>

\* line 420: not within an action window; the routine returns
NotInWindow ==
    /\ pc = "decide"
    /\ ~InGW1Window
    /\ ~InGWWindow
    /\ pc' = "done"
    /\ UNCHANGED <<ret, els, budget, pos, selected, club_ct, remaining, need,
                   squad_ids, xi, captain, vice, next_ev, my, desired,
                   free_left, outs, ins, transfers, posts>>

Next ==
    \/ NoUpcomingGW
    \/ FindNextEvent
    \/ FetchMyTeam
    \/ ScorePlayers
    \/ GW1Build
    \/ PickSquadPass
    \/ GW1Lineup
    \/ GW1Post
    \/ GWPlan
    \/ GWTransfers
    \/ GWLineup
    \/ GWPost
    \/ NotInWindow

Spec == Init /\ [][Next]_vars

----------------------------------------------------------------------------
(* Claims about weekly_routine *)

Owned == Range(my.picks)
Target == Range(selected)
Gone == {transfers[k][1] : k \in DOMAIN transfers}
Come == {transfers[k][2] : k \in DOMAIN transfers}

\* the roster that results from applying the transfer plan
ResultRoster == (Owned \ Gone) \cup Come

\* the incremental path has computed its transfer plan
Planned == ret = "gw_plan" /\ pc \in {"gw_xi", "gw_post", "raised", "done"}

\* the incremental path has returned a lineup
LineupChosen == ret = "gw_plan" /\ pc \in {"gw_post", "done"}

\* C4: the plan holds at most free_left pairs, none when free_left <= 0,
\* and a non-empty plan pairs every out with an in.
C4_PlanWithinFreeTransfers ==
    Planned =>
        /\ free_left = my.limit - my.made
        /\ free_left <= 0 => transfers = <<>>
        /\ free_left > 0 => Len(transfers) <= free_left
        /\ transfers # <<>> =>
             /\ Len(outs) = Len(ins)
             /\ Len(transfers) = Len(outs)
             /\ \A k \in DOMAIN transfers : transfers[k] = <<outs[k], ins[k]>>

\* C4 witness: one free transfer, a roster with at least two owned ids the
\* target does not want and two wanted ids it lacks, and a plan of exactly
\* one pair: the cap cut the plan short.
C4_Witness ==
    /\ Planned
    /\ free_left = 1
    /\ Cardinality(Owned \ Range(desired)) >= 2
    /\ Cardinality(Range(desired) \ Owned) >= 2
    /\ Len(transfers) = 1

\* C5 as stated: in an incremental cycle every id of the lineup, the
\* captain and the vice belong to the roster that results from applying the
\* plan to the current roster (the unchanged roster when the plan is empty).
C5_LineupFromResultRoster ==
    LineupChosen => (Range(xi) \cup {captain, vice}) \subseteq ResultRoster

ValidSquad(S) ==
    /\ Cardinality(S) = 15
    /\ \A p \in 1..4 : CountPos(els, S, p) = SQUAD_SHAPE[p]
    /\ \A t \in TeamsOf(els) : CountTeam(els, S, t) <= 3

\* C6 as stated: a valid current squad and a non-empty plan give a valid
\* squad again: 15 distinct ids, counts 2/5/5/3, no club above 3.
C6_DerivedSquadValid ==
    (Planned /\ Len(my.picks) = 15 /\ ValidSquad(Owned) /\ transfers # <<>>)
        => ValidSquad(ResultRoster)

\* C7 as stated: in the fresh-build path pick_xi does not raise on the squad
\* pick_squad returned, also when that squad has fewer than 11 members, 0
\* or 1 included; the lineup then holds as many members as can be fielded.
C7_FreshBuildNeverRaises ==
    (ret = "gw1_xi" /\ pos = 5 /\ Len(selected) < XI_SIZE) =>
        /\ pc # "raised"
        /\ pc \in {"gw1_post", "done"} => Range(xi) \subseteq Target

\* the case of C8: one free transfer, a roster of 15 that differs from the
\* target squad in exactly two ids
OneFreeTwoApart ==
    /\ Planned
    /\ free_left = 1
    /\ Len(my.picks) = 15
    /\ Cardinality(Owned) = 15
    /\ Cardinality(Owned \ Target) = 2
    /\ Cardinality(Target \ Owned) = 2

\* the index of id x in sequence s
IndexIn(s, x) == CHOOSE k \in DOMAIN s : s[k] = x

\* the in-id is the first id, in target rank order, that is not owned
InIsFirstWanted ==
    /\ transfers[1][2] \in Target \ Owned
    /\ \A j \in Target \ Owned :
         IndexIn(selected, transfers[1][2]) <= IndexIn(selected, j)

\* C8 as stated: the plan is one pair, its out-id the lowest-scored owned
\* id not in desired, its in-id the first desired id, in target rank order,
\* that is not owned.
C8_OutIsLowestScored ==
    OneFreeTwoApart =>
        /\ Len(transfers) = 1
        /\ transfers[1][1] \in Owned \ Range(desired)
        /\ \A j \in Owned \ Range(desired) : Score(transfers[1][1]) <= Score(j)
        /\ InIsFirstWanted

\* C8 amended: the plan is one pair, its out-id the first owned id, in
\* roster order, that is not in desired, its in-id the first desired id, in
\* target rank order, that is not owned.
C8_OutIsFirstInRoster ==
    OneFreeTwoApart =>
        /\ Len(transfers) = 1
        /\ transfers[1][1] \in Owned \ Range(desired)
        /\ \A j \in Owned \ Range(desired) :
             IndexIn(my.picks, transfers[1][1]) <= IndexIn(my.picks, j)
        /\ InIsFirstWanted

\* C8 witness: the case of C8 with the two unwanted owned ids scored
\* differently and the two wanted ids ranked apart, the plan made.
C8_Witness ==
    /\ OneFreeTwoApart
    /\ Len(transfers) = 1
    /\ \E j \in Owned \ Range(desired) : Score(j) # Score(transfers[1][1])
    /\ \E j \in Owned \ Range(desired) : Score(j) < Score(transfers[1][1])

Ended == pc \in {"done", "raised"}

\* C9 as stated: a post is made only inside an action window (gameweek 1
\* before its deadline, a later gameweek within 24 hours of its deadline);
\* a run outside any window ends without a post; and a run inside the
\* window of a gameweek >= 2 ends with exactly one post, post_transfers
\* when the plan is non-empty, otherwise post_picks.
C9_PostsOnlyInWindow ==
    /\ posts # <<>> =>
         \/ next_ev.gw >= 2 /\ 0 < next_ev.hrs /\ next_ev.hrs <= 24
         \/ next_ev.gw = 1 /\ next_ev.hrs > 0
    /\ (Ended /\ next_ev.gw >= 2 /\ 0 < next_ev.hrs /\ next_ev.hrs <= 24) =>
         posts = IF transfers # <<>> THEN <<"post_transfers">>
                                     ELSE <<"post_picks">>

====
